---- MODULE Spec2Model ----
(***************************************************************************)
(* Model of the KDV scheduler: the KDVModel class of kdv_model.py (Gurobi  *)
(* backend) and of mipmod.py (CBC backend).  One model object is followed  *)
(* from construction (load_config, load_preferences, load_experiences,     *)
(* set_variables, set_objective, set_constraints) through optimize to the  *)
(* output methods.  Floating point values are modelled as exact rationals  *)
(* n/d; 0/0 is NaN, as pandas produces it.                                 *)
(***************************************************************************)
EXTENDS Integers, Sequences, FiniteSets, TLC

\* ---------------------------------------------------------------- bounds
NSlots == 2
NPersons == 2
MaxPref == 2
MaxCfg == 2
MaxCalls == 2

\* experience_months and min_experienced_persons of the configuration (the
\* script's settings)
EXPERIENCE_MONTHS == 6
MIN_EXPERIENCED_PERSONS == 1

Slots == 1..NSlots
Persons == 1..NPersons
Cells == Slots \X Persons
Backends == {"gurobi", "cbc"}

\* months of experience a person may state: at the threshold and above it
MonthValues == {EXPERIENCE_MONTHS, EXPERIENCE_MONTHS + 1}

PrefInputs == [Cells -> 0..MaxPref]
MonthInputs == [Persons -> MonthValues]
ConfigInputs ==
    [slots_per_person_max : 1..MaxCfg,
     persons_per_slot_min : 1..MaxCfg,
     persons_per_slot_max : 1..MaxCfg,
     experience_months : {EXPERIENCE_MONTHS},
     min_experienced_persons : {0, MIN_EXPERIENCED_PERSONS}]

BinaryMatrices == [Cells -> {0, 1}]

\* ------------------------------------------------------------- rationals
RECURSIVE GCD(_, _)
GCD(a, b) == IF b = 0 THEN a ELSE GCD(b, a % b)

Abs(a) == IF a < 0 THEN -a ELSE a

\* n/d in lowest terms with d > 0; d = 0 is NaN (0/0) or inf (n/0)
Rat(n, d) ==
    IF d = 0 THEN [n |-> IF n = 0 THEN 0 ELSE IF n > 0 THEN 1 ELSE -1, d |-> 0]
    ELSE LET g == GCD(Abs(n), Abs(d))
             sg == IF d < 0 THEN -1 ELSE 1
         IN  [n |-> sg * (n \div g), d |-> sg * (d \div g)]

NaN == [n |-> 0, d |-> 0]
IsNaN(a) == a.d = 0 /\ a.n = 0
IsFinite(a) == a.d # 0
FromInt(i) == [n |-> i, d |-> 1]

RatAdd(a, b) ==
    IF IsFinite(a) /\ IsFinite(b) THEN Rat(a.n * b.d + b.n * a.d, a.d * b.d)
    ELSE IF IsNaN(a) \/ IsNaN(b) THEN NaN
    ELSE IF IsFinite(a) THEN b
    ELSE IF IsFinite(b) THEN a
    ELSE IF a.n = b.n THEN a ELSE NaN
RatNeg(a) == [n |-> -a.n, d |-> a.d]
RatSub(a, b) == RatAdd(a, RatNeg(b))
RatMul(a, b) == Rat(a.n * b.n, a.d * b.d)
\* a / b as IEEE division: 0/0 = NaN, x/0 = inf
RatDiv(a, b) ==
    IF IsNaN(a) \/ IsNaN(b) THEN NaN
    ELSE IF ~IsFinite(b) THEN (IF IsFinite(a) THEN FromInt(0) ELSE NaN)
    ELSE IF ~IsFinite(a) THEN (IF b.n < 0 THEN RatNeg(a) ELSE a)
    ELSE Rat(a.n * b.d, a.d * b.n)
\* Python's ==, < on floats: every comparison with NaN is False
RatEq(a, b) == ~IsNaN(a) /\ ~IsNaN(b) /\ a = b
RatLt(a, b) ==
    /\ ~IsNaN(a) /\ ~IsNaN(b)
    /\ IF IsFinite(a) /\ IsFinite(b) THEN a.n * b.d < b.n * a.d
       ELSE IF IsFinite(a) THEN b.n > 0
       ELSE IF IsFinite(b) THEN a.n < 0
       ELSE a.n < b.n

RECURSIVE IntSum(_, _)
IntSum(f, S) ==
    IF S = {} THEN 0
    ELSE LET e == CHOOSE e \in S : TRUE IN f[e] + IntSum(f, S \ {e})

\* pandas sum with skipna=True: NaN entries are left out
RECURSIVE SumSkipNa(_, _)
SumSkipNa(f, S) ==
    IF S = {} THEN FromInt(0)
    ELSE LET e == CHOOSE e \in S : TRUE
             rest == SumSkipNa(f, S \ {e})
         IN  IF IsNaN(f[e]) THEN rest ELSE RatAdd(f[e], rest)

\* numpy / solver expression sum: NaN propagates
RECURSIVE SumAll(_, _)
SumAll(f, S) ==
    IF S = {} THEN FromInt(0)
    ELSE LET e == CHOOSE e \in S : TRUE IN RatAdd(f[e], SumAll(f, S \ {e}))

\* pandas max with skipna=True: NaN when every entry is NaN
MaxSkipNa(f, S) ==
    LET ok == {e \in S : ~IsNaN(f[e])}
    IN  IF ok = {} THEN NaN
        ELSE f[CHOOSE e \in ok : \A o \in ok : ~RatLt(f[e], f[o])]

\* ------------------------------------------------------------ the object
VARIABLES
    backend,        \* which KDVModel class: kdv_model.py or mipmod.py
    pc,             \* position of the constructor / life cycle of the object
    config,         \* self.config
    prefs,          \* self.prefs (raw table)
    prefs_normed,   \* self.prefs_normed, self.prefs_np
    experiences,    \* the months of experience in the experiences file
    exp_indicator,  \* self.exp_indicator
    assignments,    \* TRUE once the binary variables are added to the model
    objective,      \* the expression installed as the model's objective
    constrs,        \* the constraints of the solver model, in order of addition
    opt_status,     \* the status of the last solve ("unset" before any)
    solcount,       \* the number of solutions the solver holds
    X,              \* the solved values of the variables
    ret,            \* outcome of the last output method call
    written,        \* the tables save_output wrote
    firstSched,     \* the table the first slot_schedule since the solve returned
    schedCalls      \* slot_schedule calls since the solve, counted up to MaxCalls

vars == <<backend, pc, config, prefs, prefs_normed, experiences, exp_indicator,
          assignments, objective, constrs, opt_status, solcount, X, ret, written,
          firstSched, schedCalls>>

NoTable == <<>>
NoCall == [op |-> "none", err |-> "none", table |-> NoTable]

\* --------------------------------------------------------- data loading
ColSum(raw, p) == IntSum([s \in Slots |-> raw[<<s, p>>]], Slots)

\* mipmod.py divides by the column sum only; kdv_model.py also multiplies by
\* the number of slots
NormalizePreferences(b, raw) ==
    [c \in Cells |->
        LET q == RatDiv(FromInt(raw[c]), FromInt(ColSum(raw, c[2])))
        IN  IF b = "gurobi" THEN RatMul(q, FromInt(NSlots)) ELSE q]

\* variant: the threshold test made non-strict
ExperienceIndicatorAtLeast(months, cfg) ==
    [p \in Persons |-> IF months[p] >= cfg.experience_months THEN 1 ELSE 0]

ExperienceIndicator(months, cfg) ==
    [p \in Persons |-> IF months[p] > cfg.experience_months THEN 1 ELSE 0]

\* ---------------------------------------------------------- model set-up
\* objective expressions, evaluated at a binary matrix x
QuadraticObjective(x, pn) ==
    SumAll([c \in Cells |->
              LET d == RatSub(FromInt(x[c]), pn[c]) IN RatMul(d, d)], Cells)

DiscrepancySum(x, pn) ==
    SumAll([c \in Cells |-> RatSub(FromInt(x[c]), pn[c])], Cells)

InstalledObjective(b) ==
    IF b = "gurobi" THEN "sum_squared_discrepancy" ELSE "sum_discrepancy"

ObjectiveValue(obj, x, pn) ==
    IF obj = "sum_squared_discrepancy" THEN QuadraticObjective(x, pn)
    ELSE DiscrepancySum(x, pn)

HasNaN(pn) == \E c \in Cells : IsNaN(pn[c])

\* cells in np.ndenumerate order (row major)
CellSeq ==
    [i \in 1..(NSlots * NPersons) |->
        <<((i - 1) \div NPersons) + 1, ((i - 1) % NPersons) + 1>>]

\* variant: the availability test on the wrong side of zero
UnavailableCellNegative(pn, c) == RatLt(pn[c], FromInt(0))

UnavailableCell(pn, c) == RatEq(pn[c], FromInt(0))

constr_no_unavailable_slots(pn) ==
    LET sel == SelectSeq(CellSeq, LAMBDA c : UnavailableCell(pn, c))
    IN  [i \in 1..Len(sel) |->
            [name |-> <<"unavail", sel[i][1], sel[i][2]>>,
             coef |-> [c \in Cells |-> IF c = sel[i] THEN 1 ELSE 0],
             sense |-> "eq", rhs |-> 0]]

constr_slots_per_person(cfg) ==
    [p \in 1..NPersons |->
        [name |-> <<"maxslots", p>>,
         coef |-> [c \in Cells |-> IF c[2] = p THEN 1 ELSE 0],
         sense |-> "le", rhs |-> cfg.slots_per_person_max]]

\* variant: the maximum added with the sense of the minimum
constr_persons_per_slot_both_ge(cfg) ==
    [i \in 1..(2 * NSlots) |->
        LET s == (i + 1) \div 2
            rowsum == [c \in Cells |-> IF c[1] = s THEN 1 ELSE 0]
        IN  IF i % 2 = 1
            THEN [name |-> <<"minpersons", s>>, coef |-> rowsum,
                  sense |-> "ge", rhs |-> cfg.persons_per_slot_min]
            ELSE [name |-> <<"maxpersons", s>>, coef |-> rowsum,
                  sense |-> "ge", rhs |-> cfg.persons_per_slot_max]]

constr_persons_per_slot(cfg) ==
    [i \in 1..(2 * NSlots) |->
        LET s == (i + 1) \div 2
            rowsum == [c \in Cells |-> IF c[1] = s THEN 1 ELSE 0]
        IN  IF i % 2 = 1
            THEN [name |-> <<"minpersons", s>>, coef |-> rowsum,
                  sense |-> "ge", rhs |-> cfg.persons_per_slot_min]
            ELSE [name |-> <<"maxpersons", s>>, coef |-> rowsum,
                  sense |-> "le", rhs |-> cfg.persons_per_slot_max]]

constr_experienced_persons(cfg, ind) ==
    [s \in 1..NSlots |->
        [name |-> <<"expperson", s>>,
         coef |-> [c \in Cells |-> IF c[1] = s THEN ind[c[2]] ELSE 0],
         sense |-> "ge", rhs |-> cfg.min_experienced_persons]]

set_constraints(pn, cfg, ind) ==
    constr_no_unavailable_slots(pn) \o constr_slots_per_person(cfg)
        \o constr_persons_per_slot(cfg) \o constr_experienced_persons(cfg, ind)

\* ------------------------------------------------------------ the solver
Lhs(x, c) == IntSum([e \in Cells |-> c.coef[e] * x[e]], Cells)

Satisfies(x, c) ==
    CASE c.sense = "eq" -> Lhs(x, c) = c.rhs
      [] c.sense = "le" -> Lhs(x, c) <= c.rhs
      [] c.sense = "ge" -> Lhs(x, c) >= c.rhs

Feasible(cs) ==
    {x \in BinaryMatrices : \A i \in 1..Len(cs) : Satisfies(x, cs[i])}

Minimisers(obj, pn, F) ==
    IF HasNaN(pn) THEN F
    ELSE {x \in F : \A y \in F :
             ~RatLt(ObjectiveValue(obj, y, pn), ObjectiveValue(obj, x, pn))}

\* what a solve may end in. Without a limit the search ends with a proven
\* optimum or with the proof that there is none; limited: the caller passed a
\* limit, which the search may hit with or without a solution at hand
SolverOutcomes(obj, pn, cs, limited) ==
    LET F == Feasible(cs)
        finished ==
            IF F = {} THEN {[status |-> "INFEASIBLE", x |-> NoTable]}
            ELSE {[status |-> "OPTIMAL", x |-> x] : x \in Minimisers(obj, pn, F)}
        stopped ==
            {[status |-> "NO_SOLUTION_FOUND", x |-> NoTable]}
                \cup {[status |-> "FEASIBLE", x |-> x] : x \in F}
    IN  IF limited THEN finished \cup stopped ELSE finished

\* -------------------------------------------------------- output methods
\* mipmod.py reads self.opt_status, which only optimize sets
ConvergedRaises(b, st) == b = "cbc" /\ st = "unset"

converged(b, st, sc) ==
    IF b = "gurobi" THEN sc > 0 ELSE st \in {"OPTIMAL", "FEASIBLE"}

\* variant: the solved values written into self.prefs itself (no copy)
slot_schedule_in_place(raw, x) == [res |-> x, prefs |-> x]

\* res = self.prefs.copy(); res[:] = <solved values>; return res
slot_schedule(raw, x) == [res |-> x, prefs |-> raw]

\* variant: the mean of the row sums in both classes, although mipmod.py
\* normalizes the columns to sum to 1
slot_desirability_unscaled(b, pn) ==
    [s \in Slots |->
        RatDiv(SumSkipNa([p \in Persons |-> pn[<<s, p>>]], Persons),
               FromInt(NPersons))]

slot_desirability(b, pn) ==
    [s \in Slots |->
        LET rowsum == SumSkipNa([p \in Persons |-> pn[<<s, p>>]], Persons)
            mean == RatDiv(rowsum, FromInt(NPersons))
        IN  IF b = "gurobi" THEN mean ELSE RatMul(mean, FromInt(NSlots))]

person_flexibility(pn) ==
    [p \in Persons |->
        RatDiv(FromInt(1), MaxSkipNa([s \in Slots |-> pn[<<s, p>>]], Slots))]

\* the failure of `assert self.converged()`, or "none"
AssertConverged(b, st, sc) ==
    IF ConvergedRaises(b, st) THEN "AttributeError"
    ELSE IF ~converged(b, st, sc) THEN "AssertionError"
    ELSE "none"

\* ---------------------------------------------------------------- actions
Init ==
    /\ backend \in Backends
    /\ pc = "new"
    /\ config = NoTable
    /\ prefs = NoTable
    /\ prefs_normed = NoTable
    /\ experiences = NoTable
    /\ exp_indicator = NoTable
    /\ assignments = FALSE
    /\ objective = "none"
    /\ constrs = <<>>
    /\ opt_status = "unset"
    /\ solcount = 0
    /\ X = NoTable
    /\ ret = NoCall
    /\ written = NoTable
    /\ firstSched = NoTable
    /\ schedCalls = 0

\* groups of variables, for the UNCHANGED clauses
inputVars == <<backend, config, prefs_normed, experiences, exp_indicator>>
modelVars == <<assignments, objective, constrs>>
solveVars == <<opt_status, solcount, X>>
callVars == <<ret, written, firstSched, schedCalls>>

LoadConfig ==
    /\ pc = "new"
    /\ \E cfg \in ConfigInputs : config' = cfg
    /\ pc' = "config_loaded"
    /\ UNCHANGED <<backend, prefs, prefs_normed, experiences, exp_indicator,
                   modelVars, solveVars, callVars>>

LoadPreferences ==
    /\ pc = "config_loaded"
    /\ \E raw \in PrefInputs :
          /\ prefs' = raw
          /\ prefs_normed' = NormalizePreferences(backend, raw)
    /\ pc' = "prefs_loaded"
    /\ UNCHANGED <<backend, config, experiences, exp_indicator, modelVars,
                   solveVars, callVars>>

LoadExperiences ==
    /\ pc = "prefs_loaded"
    /\ \E months \in MonthInputs :
          /\ experiences' = months
          /\ exp_indicator' = ExperienceIndicator(months, config)
    /\ pc' = "experiences_loaded"
    /\ UNCHANGED <<backend, config, prefs, prefs_normed, modelVars, solveVars,
                   callVars>>

SetVariables ==
    /\ pc = "experiences_loaded"
    /\ assignments' = TRUE
    /\ pc' = "variables_set"
    /\ UNCHANGED <<inputVars, prefs, objective, constrs, solveVars, callVars>>

SetObjective ==
    /\ pc = "variables_set"
    /\ objective' = InstalledObjective(backend)
    /\ pc' = "objective_set"
    /\ UNCHANGED <<inputVars, prefs, assignments, constrs, solveVars, callVars>>

\* whether the solver library takes an expression with a NaN constant is not
\* fixed by this code: it may also raise, which ends the constructor
SetObjectiveRejected ==
    /\ pc = "variables_set"
    /\ HasNaN(prefs_normed)
    /\ pc' = "failed"
    /\ UNCHANGED <<inputVars, prefs, modelVars, solveVars, callVars>>

SetConstraints ==
    /\ pc = "objective_set"
    /\ constrs' = set_constraints(prefs_normed, config, exp_indicator)
    /\ pc' = "built"
    /\ UNCHANGED <<inputVars, prefs, assignments, objective, solveVars, callVars>>

\* the constructor has returned: the methods of the object can be called
Constructed == pc \in {"built", "optimized"}

\* one solve of the built model is followed (BUILT -> SOLVED)
Optimize ==
    /\ pc = "built"
    /\ \E limited \in BOOLEAN :
         \E o \in SolverOutcomes(objective, prefs_normed, constrs, limited) :
            /\ opt_status' = o.status
            /\ X' = o.x
            /\ solcount' = IF o.x = NoTable THEN 0 ELSE 1
    /\ pc' = "optimized"
    /\ ret' = [op |-> "optimize", err |-> "none", table |-> NoTable]
    /\ firstSched' = NoTable
    /\ schedCalls' = 0
    /\ UNCHANGED <<inputVars, prefs, modelVars, written>>

CountCall(n) == IF n < MaxCalls THEN n + 1 ELSE n

SlotSchedule ==
    /\ Constructed
    /\ LET e == AssertConverged(backend, opt_status, solcount)
           r == slot_schedule(prefs, X)
       IN  IF e # "none"
           THEN /\ ret' = [op |-> "slot_schedule", err |-> e, table |-> NoTable]
                /\ UNCHANGED <<prefs, firstSched, schedCalls>>
           ELSE /\ ret' = [op |-> "slot_schedule", err |-> "none", table |-> r.res]
                /\ prefs' = r.prefs
                /\ firstSched' = IF schedCalls = 0 THEN r.res ELSE firstSched
                /\ schedCalls' = CountCall(schedCalls)
    /\ UNCHANGED <<pc, inputVars, modelVars, solveVars, written>>

SlotDesirability ==
    /\ Constructed
    /\ ret' = [op |-> "slot_desirability", err |-> "none",
               table |-> slot_desirability(backend, prefs_normed)]
    /\ UNCHANGED <<pc, inputVars, prefs, modelVars, solveVars, written,
                   firstSched, schedCalls>>

PersonFlexibility ==
    /\ Constructed
    /\ ret' = [op |-> "person_flexibility", err |-> "none",
               table |-> person_flexibility(prefs_normed)]
    /\ UNCHANGED <<pc, inputVars, prefs, modelVars, solveVars, written,
                   firstSched, schedCalls>>

SaveOutput ==
    /\ Constructed
    /\ LET e == AssertConverged(backend, opt_status, solcount)
           r == slot_schedule(prefs, X)
       IN  IF e # "none"
           THEN /\ ret' = [op |-> "save_output", err |-> e, table |-> NoTable]
                /\ UNCHANGED <<prefs, written, firstSched, schedCalls>>
           ELSE /\ ret' = [op |-> "save_output", err |-> "none", table |-> NoTable]
                /\ prefs' = r.prefs
                /\ firstSched' = IF schedCalls = 0 THEN r.res ELSE firstSched
                /\ schedCalls' = CountCall(schedCalls)
                /\ written' =
                      [assignments |-> r.res,
                       desirability |-> slot_desirability(backend, prefs_normed),
                       flexibility |-> person_flexibility(prefs_normed)]
    /\ UNCHANGED <<pc, inputVars, modelVars, solveVars>>

Next ==
    \/ LoadConfig
    \/ LoadPreferences
    \/ LoadExperiences
    \/ SetVariables
    \/ SetObjective
    \/ SetObjectiveRejected
    \/ SetConstraints
    \/ Optimize
    \/ SlotSchedule
    \/ SlotDesirability
    \/ PersonFlexibility
    \/ SaveOutput

Spec == Init /\ [][Next]_vars

\* ================================================================ claims
Solved == pc = "optimized" /\ converged(backend, opt_status, solcount)

RowCount(x, s) == Cardinality({p \in Persons : x[<<s, p>>] = 1})
ColCount(x, p) == Cardinality({s \in Slots : x[<<s, p>>] = 1})
Named(n) == {i \in 1..Len(constrs) : constrs[i].name = n}

\* the matrices the claims about "every assignment matrix that satisfies the
\* built constraint set" range over: all of them in a built model, and the
\* one the solver returned
Admitted ==
    IF pc = "built" THEN Feasible(constrs)
    ELSE IF pc = "optimized" /\ X # NoTable THEN {X}
    ELSE {}

\* C1: in a built model, every assignment matrix that satisfies the
\* constraints (and every solution a solve returns) has 0 at each cell whose
\* normalized preference is 0.
C1_NoUnavailableAssignment ==
    \A x \in Admitted : \A c \in Cells :
        RatEq(prefs_normed[c], FromInt(0)) => x[c] = 0

C1_Witness ==
    /\ Solved
    /\ \E c \in Cells : RatEq(prefs_normed[c], FromInt(0)) /\ X[c] = 0
    /\ \E c \in Cells : X[c] = 1

\* C2: every satisfying matrix gives each person at most
\* slots_per_person_max slots and each slot between persons_per_slot_min and
\* persons_per_slot_max persons; the built model holds exactly one capacity
\* constraint per person and one minimum and one maximum constraint per slot.
C2_CapacityAndCoverage ==
    /\ \A x \in Admitted :
          /\ \A p \in Persons : ColCount(x, p) <= config.slots_per_person_max
          /\ \A s \in Slots :
                /\ RowCount(x, s) >= config.persons_per_slot_min
                /\ RowCount(x, s) <= config.persons_per_slot_max
    /\ Constructed =>
          /\ \A p \in Persons : Cardinality(Named(<<"maxslots", p>>)) = 1
          /\ \A s \in Slots :
                /\ Cardinality(Named(<<"minpersons", s>>)) = 1
                /\ Cardinality(Named(<<"maxpersons", s>>)) = 1

C2_Witness ==
    /\ Solved
    /\ \E p \in Persons : ColCount(X, p) = config.slots_per_person_max
    /\ \E s \in Slots : RowCount(X, s) = config.persons_per_slot_max
    /\ config.persons_per_slot_max < NPersons
    /\ config.slots_per_person_max < NSlots

\* C3: every satisfying matrix has, in each slot, at least
\* min_experienced_persons assigned persons whose months of experience are
\* strictly greater than experience_months.
C3_ExperiencedPerSlot ==
    \A x \in Admitted : \A s \in Slots :
        Cardinality({p \in Persons :
                        /\ x[<<s, p>>] = 1
                        /\ experiences[p] > config.experience_months})
            >= config.min_experienced_persons

C3_Witness ==
    /\ Solved
    /\ config.min_experienced_persons = 1
    /\ \E p \in Persons : experiences[p] = config.experience_months
    /\ \E p \in Persons : experiences[p] > config.experience_months

Evaluators == {"slot_schedule", "slot_desirability", "person_flexibility"}
\* some person states no preference at all
ZeroColumn == prefs # NoTable /\ \E p \in Persons : ColSum(prefs, p) = 0
One == FromInt(1)

\* C4: the objective the CBC model installs takes, at every binary matrix,
\* the value of the quadratic objective sum((x - pref)^2) on the same
\* normalized preferences.
C4_LinearObjectiveIsExactReduction ==
    (backend = "cbc" /\ Constructed /\ ~HasNaN(prefs_normed)) =>
        \A x \in BinaryMatrices :
            RatEq(ObjectiveValue(objective, x, prefs_normed),
                  QuadraticObjective(x, prefs_normed))

\* C5: an evaluator called (on stated preferences) in any state other than a
\* solved one with a solution fails and returns no table.
C5_EvaluatorsFailUnlessSolved ==
    (Constructed /\ ~ZeroColumn /\ ~Solved /\ ret.op \in Evaluators) =>
        (ret.err # "none" /\ ret.table = NoTable)

\* C6: when a person's preference column sums to zero, no variable and no
\* constraint is ever added to the model and no model is built.
C6_ZeroColumnRejectedBeforeBuild ==
    ZeroColumn => (~assignments /\ constrs = <<>> /\ ~Constructed)

\* C7: when persons_per_slot_min * |slots| exceeds
\* |persons| * slots_per_person_max no matrix satisfies the constraints, the
\* solve yields no solution, and slot_schedule, slot_desirability,
\* person_flexibility and save_output all fail and return or write no table.
CapacityShort ==
    config.persons_per_slot_min * NSlots > NPersons * config.slots_per_person_max

C7_InfeasibleFailsEveryOutput ==
    (Constructed /\ ~ZeroColumn /\ CapacityShort) =>
        /\ Feasible(constrs) = {}
        /\ pc = "optimized" => (~Solved /\ X = NoTable)
        /\ (opt_status = "INFEASIBLE" /\ ret.op \in Evaluators \cup {"save_output"}) =>
              (ret.err = "AssertionError" /\ ret.table = NoTable)
        /\ written = NoTable

\* C8 (as stated): whenever all non-zero cells of the preference table hold
\* the same value and every person is available somewhere, slot_desirability
\* returns 1 for every slot.
AvailableCellsEqual(raw) ==
    /\ \E c \in Cells : raw[c] # 0
    /\ \A c, e \in Cells : (raw[c] # 0 /\ raw[e] # 0) => raw[c] = raw[e]

C8_DesirabilityOneOnAvailableUniform ==
    (ret.op = "slot_desirability" /\ ~ZeroColumn /\ AvailableCellsEqual(prefs)) =>
        \A s \in Slots : RatEq(ret.table[s], One)

\* C8 (amended): whenever all cells of the preference table hold the same
\* non-zero value, slot_desirability returns 1 for every slot, in both
\* backends.
AllCellsEqual(raw) ==
    \A c, e \in Cells : raw[c] # 0 /\ raw[c] = raw[e]

C8_DesirabilityOneOnUniform ==
    (ret.op = "slot_desirability" /\ AllCellsEqual(prefs)) =>
        \A s \in Slots : RatEq(ret.table[s], One)

C8_Witness ==
    /\ ret.op = "slot_desirability"
    /\ AllCellsEqual(prefs)
    /\ backend = "cbc"
    /\ \A c \in Cells : prefs[c] = MaxPref
    /\ \A s \in Slots : ret.table[s] = One

\* C9: when every person is available somewhere, person_flexibility is 1 for a person with the same non-zero
\* preference for all slots, and 1/|slots| for a person available at exactly
\* one slot, which is the reciprocal of that person's single non-zero
\* normalized preference.
SamePreferenceEverywhere(raw, p) ==
    \A s, u \in Slots : raw[<<s, p>>] # 0 /\ raw[<<s, p>>] = raw[<<u, p>>]

OnlySlot(raw, p, s) ==
    raw[<<s, p>>] # 0 /\ \A u \in Slots \ {s} : raw[<<u, p>>] = 0

C9_FlexibilityScale ==
    (ret.op = "person_flexibility" /\ ~ZeroColumn) =>
        \A p \in Persons :
            /\ SamePreferenceEverywhere(prefs, p) => RatEq(ret.table[p], One)
            /\ \A s \in Slots :
                  OnlySlot(prefs, p, s) =>
                      /\ RatEq(ret.table[p], Rat(1, NSlots))
                      /\ RatEq(ret.table[p], RatDiv(One, prefs_normed[<<s, p>>]))

\* C10: after a solve that produced a solution, a call of slot_schedule,
\* slot_desirability or person_flexibility changes none of the raw
\* preferences, normalized preferences, experience indicator, config and
\* solved values, and every slot_schedule call returns the same 0/1 matrix
\* as the first one.
C10_Step ==
    (Solved /\ (SlotSchedule \/ SlotDesirability \/ PersonFlexibility)) =>
        /\ UNCHANGED <<prefs, prefs_normed, exp_indicator, config, X>>
        /\ SlotSchedule =>
              /\ ret'.err = "none"
              /\ ret'.table \in BinaryMatrices
              /\ firstSched' = ret'.table
              /\ schedCalls > 0 => ret'.table = firstSched

C10_EvaluatorsRepeatable == [][C10_Step]_vars

C10_Witness ==
    /\ Solved
    /\ schedCalls = MaxCalls
    /\ ret.op = "slot_schedule"
    /\ ret.table = firstSched
    /\ prefs # X

====
